---- MODULE Spec2Model ----
(***************************************************************************)
(* Model of the scanning flight of flight.py (class ArucoFlight) together   *)
(* with the persistence functions of database.py it calls.                  *)
(*                                                                          *)
(* Units.  Speeds are integers in 1e-4 m/s, distances in cm, pixel          *)
(* positions in px, wall-clock time in 0.1 s, heights in 1e-5 m (speed      *)
(* unit times time unit), yaw-search angles in 0.1 degree.                  *)
(* A decoded text is a sequence of symbols: single characters, and the      *)
(* keyword of the name field as one symbol ("predmet" / "Predmet").         *)
(***************************************************************************)
EXTENDS Integers, Sequences, FiniteSets, TLC

VARIABLES
    pc,                    \* position of the main thread in main()/fly()
    is_flying,             \* self.is_flying
    session_uuid,          \* self.session_uuid ("none" when absent)
    stack,                 \* active safe_landing() invocations, innermost last
    signals,               \* termination signals delivered so far
    calls,                 \* flight/persistence calls of the shutdown path, in order
    wait_elapsed,          \* time spent in the wait loop of safe_landing()
    telegram_initialized,  \* self.telegram_initialized
    telegram_queue,        \* telegram_queue: messages enqueued and not yet taken
    should_stop,           \* global should_stop
    worker_pc,             \* position of the thread running telegram_worker
    message,               \* local message of telegram_worker
    forwarded,             \* messages telegram_worker has printed, in order
    target_reached,        \* local target_reached of fly()
    retreat_mode,          \* local retreat_mode of fly()
    retreat_elapsed,       \* time.time() - retreat_start_time, saturated
    since_control,         \* time.time() - last_control_time, saturated
    retry_count,           \* local retry_count of fly()
    frames_without_marker, \* local frames_without_marker of fly()
    current_aruco_id,      \* current_aruco_id / self.current_aruco_id
    locked_marker_id,      \* self.locked_marker_id
    marker_lost_frames,    \* self.marker_lost_frames
    scanned_markers,       \* self.scanned_markers
    scanned_qr_codes,      \* self.scanned_qr_codes
    yaw_search,            \* self.yaw_search (active, current_angle, direction)
    current_search_phase,  \* self.current_search_phase
    current_height,        \* local current_height of fly()
    successful_scans,      \* self.scan_results['successful_scans']
    items,                 \* table items of the database
    cmds,                  \* velocity commands issued by the last loop iteration
    ev                     \* what the last loop iteration did (observation)

shutdownVars == <<pc, is_flying, session_uuid, stack, signals, calls, wait_elapsed>>
dispatchVars == <<telegram_initialized, should_stop, worker_pc, message, forwarded>>
loopVars == <<target_reached, retreat_mode, retreat_elapsed, since_control,
              retry_count, frames_without_marker, current_aruco_id,
              locked_marker_id, marker_lost_frames, scanned_markers,
              scanned_qr_codes, yaw_search, current_search_phase,
              current_height, successful_scans, items, cmds, ev>>
vars == <<shutdownVars, loopVars, telegram_queue, dispatchVars>>

None == "none"
\* locked_marker_id / current_aruco_id is None
NoMarker == -1

-----------------------------------------------------------------------------
(* speed_settings and the other tuning values of ArucoFlight.__init__ *)

max_speed == 1800
min_speed == 1000
target_distance == 135
distance_threshold == 5
yaw_speed == 1000
control_delay == 8
stabilization_sleep == 50
vertical_speed == 900
centering_speed == 1200
center_threshold == 70
precise_center_threshold == 70
retreat_speed == 2000
retreat_time == 30
min_height == 40000
max_search_height == 200000
aruco_confidence_threshold == 65
max_lost_frames == 15
yaw_max_angle == 450
yaw_step_rate == 15
damping_zone == 20
retry_limit == 5
yaw_search_after == 5
retreat_after == 10
\* safe_landing: timeout = time.time() + 10
landing_timeout == 100

\* frame.shape of the camera image
FRAME_WIDTH == 640
FRAME_HEIGHT == 480

\* ARUCO_LOCATIONS: marker id -> <<shelf, position>>
ARUCO_LOCATIONS ==
    [m \in {0, 1, 2, 3, 4} |->
        CASE m = 0 -> <<"1", "2">>
          [] m = 1 -> <<"1", "1">>
          [] m = 2 -> <<"1", "2">>
          [] m = 3 -> <<"1", "1">>
          [] m = 4 -> <<"2", "3">>]

-----------------------------------------------------------------------------
(* Bounds of the model *)

MaxSignals == 2            \* termination signals delivered in one run
MaxNoMarker == 14          \* cap of frames_without_marker
MaxLost == 16              \* cap of marker_lost_frames
MaxRetry == 6              \* cap of retry_count
MaxScans == 4              \* cap of successful_scans
MaxQueue == 4              \* cap of the messages pending when the loop enqueues

-----------------------------------------------------------------------------
(* Arithmetic helpers *)

Abs(n) == IF n < 0 THEN -n ELSE n
Sign(n) == IF n > 0 THEN 1 ELSE IF n < 0 THEN -1 ELSE 0
Max(a, b) == IF a >= b THEN a ELSE b
Min(a, b) == IF a <= b THEN a ELSE b
Clip(v, lo, hi) == IF v < lo THEN lo ELSE IF v > hi THEN hi ELSE v
\* integer quotient rounded toward zero, as a float product/quotient truncates
\* to on the grids of inputs used here
Quot(a, b) == Sign(a) * (Abs(a) \div b)

-----------------------------------------------------------------------------
(* Strings: str.lower, str.strip, str.split, str.replace, substring test *)

LowerSym(c) ==
    CASE c = "I" -> "i"
      [] c = "D" -> "d"
      [] c = "A" -> "a"
      [] c = "Predmet" -> "predmet"
      [] OTHER -> c

Lower(s) == [i \in 1..Len(s) |-> LowerSym(s[i])]

RECURSIVE LStrip(_)
LStrip(s) == IF s # <<>> /\ Head(s) = " " THEN LStrip(Tail(s)) ELSE s

RECURSIVE RStrip(_)
RStrip(s) ==
    IF s # <<>> /\ s[Len(s)] = " " THEN RStrip(SubSeq(s, 1, Len(s) - 1)) ELSE s

Strip(s) == RStrip(LStrip(s))

StartsWith(s, p) == Len(p) <= Len(s) /\ SubSeq(s, 1, Len(p)) = p

Contains(s, sub) ==
    \E i \in 1..(Len(s) + 1) :
        i + Len(sub) - 1 <= Len(s) /\ SubSeq(s, i, i + Len(sub) - 1) = sub

\* s.split(sep) for a one-symbol separator: the pieces between separators
RECURSIVE SplitAcc(_, _, _)
SplitAcc(s, sep, cur) ==
    IF s = <<>> THEN <<cur>>
    ELSE IF Head(s) = sep THEN <<cur>> \o SplitAcc(Tail(s), sep, <<>>)
    ELSE SplitAcc(Tail(s), sep, Append(cur, Head(s)))

Split(s, sep) == SplitAcc(s, sep, <<>>)

\* s.replace(old, ''): every occurrence of old removed, left to right
RECURSIVE Remove(_, _)
Remove(s, old) ==
    IF s = <<>> THEN <<>>
    ELSE IF StartsWith(s, old) THEN Remove(SubSeq(s, Len(old) + 1, Len(s)), old)
    ELSE <<Head(s)>> \o Remove(Tail(s), old)

\* ' '.join(pieces)
RECURSIVE JoinSpace(_)
JoinSpace(pieces) ==
    IF pieces = <<>> THEN <<>>
    ELSE IF Len(pieces) = 1 THEN pieces[1]
    ELSE pieces[1] \o <<" ">> \o JoinSpace(Tail(pieces))

NonEmpty(piece) == piece # <<>>

\* database.clean_string: ' '.join(s.split())
clean_string(s) == JoinSpace(SelectSeq(Split(s, " "), NonEmpty))

-----------------------------------------------------------------------------
(* database.py: table items, find_item, add_item *)

\* Item.qr_code.ilike('%q%') or Item.name.ilike('%q%'): does any row match
find_item(q) ==
    \E it \in items :
        \/ Contains(Lower(it.qr_code), Lower(q))
        \/ Contains(Lower(it.name), Lower(q))

\* faulty variant: the row is inserted without looking for an existing one
insert_always(qr_code, name, shelf, position) ==
    items \cup {[qr_code |-> clean_string(qr_code), name |-> clean_string(name),
                 shelf |-> clean_string(shelf), position |-> clean_string(position)]}
\* the table after add_item(qr_code, name, shelf, position)
add_item(qr_code, name, shelf, position) ==
    LET row == [qr_code |-> clean_string(qr_code), name |-> clean_string(name),
                shelf |-> clean_string(shelf), position |-> clean_string(position)]
    IN  {it \in items : it.qr_code # row.qr_code} \cup {row}

-----------------------------------------------------------------------------
(* ArucoFlight.process_qr_data *)

ID_KEY == <<"i", "d">>
ID_PREFIX == <<"i", "d", ":">>
NAME_KEY == <<"predmet">>

\* the loop over qr_data.split(','): data['qr_code'], data['name'], and whether
\* line.split(':')[1] raised IndexError
RECURSIVE parse_lines(_, _)
parse_lines(lines, data) ==
    IF lines = <<>> \/ data.raised THEN data
    ELSE LET line == Strip(Head(lines))
         IN  IF Contains(Lower(line), ID_KEY)
             THEN parse_lines(Tail(lines),
                    [data EXCEPT !.has_qr_code = TRUE,
                                 !.qr_code = Strip(Remove(Lower(line), ID_PREFIX))])
             ELSE IF Contains(Lower(line), NAME_KEY)
             THEN IF Len(Split(line, ":")) < 2
                  THEN [data EXCEPT !.raised = TRUE]
                  ELSE parse_lines(Tail(lines),
                         [data EXCEPT !.has_name = TRUE,
                                      !.name = Strip(Split(line, ":")[2])])
             ELSE parse_lines(Tail(lines), data)

parse_qr(qr_data) ==
    parse_lines(Split(qr_data, ","),
                [has_qr_code |-> FALSE, qr_code |-> <<>>, has_name |-> FALSE, name |-> <<>>,
                 raised |-> FALSE])

\* all(field in data for field in ['name', 'qr_code'])
\* faulty variant: only the name is required
name_is_enough(data) == data.has_name
has_required_fields(data) == data.has_name /\ data.has_qr_code

\* qr_data in self.scanned_qr_codes
\* faulty variant: the set of scanned texts is not consulted
never_seen_before(qr_data) == FALSE
already_scanned(qr_data) == qr_data \in scanned_qr_codes

\* self.current_aruco_id is None or self.current_aruco_id not in ARUCO_LOCATIONS
location_unknown ==
    current_aruco_id = NoMarker \/ current_aruco_id \notin DOMAIN ARUCO_LOCATIONS

\* faulty variant: the shelf is taken from the position of the pair
shelf_from_position(m) == <<"Stellazh", " ">> \o <<ARUCO_LOCATIONS[m][2]>>
shelf_text(m) == <<"Stellazh", " ">> \o <<ARUCO_LOCATIONS[m][1]>>
position_text(m) == <<"Polka", " ">> \o <<ARUCO_LOCATIONS[m][2]>>

QrResult(ok, outcome, addCalls, newItems, added, recorded) ==
    [ok |-> ok, outcome |-> outcome, add_item_calls |-> addCalls, items |-> newItems,
     scanned_qr_codes |-> IF added THEN scanned_qr_codes \cup {outcome.qr} ELSE scanned_qr_codes,
     successful_scans |-> IF added THEN successful_scans + 1 ELSE successful_scans,
     recorded |-> recorded,
     \* every outcome but the silent duplicate enqueues one message
     msgs |-> IF outcome.kind = "duplicate" THEN <<>> ELSE <<outcome.kind>>,
     raised |-> FALSE]

\* telegram_queue.put raises at every call: the put of the outcome raises, the
\* put of each handler on the way out (lines 405, 438, 445) raises too, and the
\* exception leaves process_qr_data
Escaped(res) == [res EXCEPT !.ok = FALSE, !.msgs = <<>>, !.raised = TRUE]

\* the body of process_qr_data when every put raises: what was done before the
\* first put stays done
process_unnotified(qr_data, data) ==
    LET out(kind) == [kind |-> kind, qr |-> qr_data]
    IN  IF location_unknown
        THEN Escaped(QrResult(FALSE, out("invalid_location"), 0, items, FALSE, <<>>))
        ELSE IF data.raised
        THEN Escaped(QrResult(FALSE, out("error"), 0, items, FALSE, <<>>))
        ELSE IF ~has_required_fields(data)
        THEN Escaped(QrResult(FALSE, out("invalid_format"), 0, items, FALSE, <<>>))
        ELSE IF find_item(data.qr_code)
        THEN Escaped(QrResult(FALSE, out("existing"), 0, items, FALSE, <<>>))
        ELSE Escaped(QrResult(FALSE, out("added"), 1,
                              add_item(data.qr_code, data.name,
                                       shelf_text(current_aruco_id),
                                       position_text(current_aruco_id)),
                              TRUE, <<"success">>))

\* the body of process_qr_data, data being the fields parsed from qr_data;
\* db: "ok", or which call raises: find_item ("find"), add_item ("add"),
\* telegram_queue.put ("notify")
process_parsed(qr_data, data, db) ==
    LET out(kind) == [kind |-> kind, qr |-> qr_data]
    IN  IF already_scanned(qr_data)
        THEN QrResult(TRUE, out("duplicate"), 0, items, FALSE, <<>>)
        ELSE IF db = "notify" /\ telegram_initialized
        THEN process_unnotified(qr_data, data)
        ELSE IF location_unknown
        THEN QrResult(FALSE, out("invalid_location"), 0, items, FALSE, <<"invalid_location">>)
        ELSE IF data.raised
        THEN QrResult(FALSE, out("error"), 0, items, FALSE, <<>>)
        ELSE IF ~has_required_fields(data)
        THEN QrResult(FALSE, out("invalid_format"), 0, items, FALSE, <<"invalid_format">>)
        ELSE IF db = "find"
        THEN QrResult(FALSE, out("find_error"), 0, items, FALSE, <<>>)
        ELSE IF find_item(data.qr_code)
        THEN QrResult(TRUE, out("existing"), 0, items, TRUE, <<>>)
        ELSE IF db = "add"
        THEN QrResult(FALSE, out("add_error"), 1, items, FALSE, <<>>)
        ELSE QrResult(TRUE, out("added"), 1,
                      add_item(data.qr_code, data.name,
                               shelf_text(current_aruco_id), position_text(current_aruco_id)),
                      TRUE, <<"success">>)

process_qr_data(qr_data, db) == process_parsed(qr_data, parse_qr(qr_data), db)

-----------------------------------------------------------------------------
(* Following: marker confidence, valid candidates, lock selection           *)
(* A candidate is one detected marker of the frame:                         *)
(*   id, smin/smax (shortest and longest edge of its quadrilateral, px),    *)
(*   pose ("ok", "fail": solvePnP returned success = False, "raise"),       *)
(*   dist (norm of the solved translation, cm), x/y (centroid, px).         *)

\* marker_confidence = min(side_lengths) / max(side_lengths) >= threshold
\* faulty variant: the confidence is not checked
confidence_unchecked(c) == TRUE
confidence_ok(c) == c.smin * 100 >= aruco_confidence_threshold * c.smax

\* marker_id[0] not in self.scanned_markers
\* faulty variant: scanned markers are not filtered out
scanned_ignored(c) == TRUE
not_scanned(c) == c.id \notin scanned_markers

is_valid(c) == confidence_ok(c) /\ not_scanned(c)

valid_markers(frame) == SelectSeq(frame, is_valid)

\* index of the first valid candidate carrying the locked id, 0 when there is none
locked_index(valid) ==
    IF \E i \in 1..Len(valid) : valid[i].id = locked_marker_id
    THEN CHOOSE i \in 1..Len(valid) :
            /\ valid[i].id = locked_marker_id
            /\ \A j \in 1..(i - 1) : valid[j].id # locked_marker_id
    ELSE 0

\* the loop "for i, corners_i in enumerate(valid_corners)": best = <<found, min_distance, idx>>
RECURSIVE nearest_loop(_, _, _)
nearest_loop(valid, i, best) ==
    IF i > Len(valid) THEN best
    ELSE IF valid[i].pose = "ok" /\ (~best[1] \/ valid[i].dist < best[2])
         THEN nearest_loop(valid, i + 1, <<TRUE, valid[i].dist, i>>)
         ELSE nearest_loop(valid, i + 1, best)

nearest_marker_idx(valid) == nearest_loop(valid, 1, <<FALSE, 0, 1>>)[3]

-----------------------------------------------------------------------------
(* Velocity commands *)

Cmd(vx, vy, vz, yaw) == [vx |-> vx, vy |-> vy, vz |-> vz, yaw_rate |-> yaw]
HoldCmd == Cmd(0, 0, 0, 0)
RetreatCmd == Cmd(0, -retreat_speed, 0, 0)

\* abs(x_center_error) > frame_width/4
\* faulty variant: the lateral speed is never saturated
never_far_from_center(x_center_error, frame_width) == FALSE
far_from_center(x_center_error, frame_width) == Abs(x_center_error) > frame_width \div 4

\* is_centered_x = abs(x_center_error) < center_threshold
\* faulty variant: the forward speed does not wait for the marker to be centred
centered_unchecked(x_center_error) == TRUE
is_centered_x(x_center_error) == Abs(x_center_error) < center_threshold

\* ArucoFlight.calculate_control_speed
calculate_control_speed(distance, x_center, y_center, frame_height, frame_width) ==
    LET x_center_error == x_center - frame_width \div 2
        y_center_error == y_center - frame_height \div 2
        distance_error == distance - target_distance
        is_at_distance == Abs(distance_error) < distance_threshold
        quarter == frame_width \div 4
        far_off == far_from_center(x_center_error, frame_width)
        yaw_scaled == Quot(yaw_speed * Abs(x_center_error), quarter) * Sign(x_center_error)
        v_x == IF far_off THEN centering_speed * Sign(x_center_error)
               ELSE Max(centering_speed \div 2,
                        Quot(centering_speed * Abs(x_center_error), quarter))
                    * Sign(x_center_error)
        yaw_rate == IF far_off THEN yaw_speed * Sign(x_center_error)
                    ELSE IF Abs(v_x) > centering_speed \div 2 THEN Quot(yaw_scaled, 2)
                    ELSE yaw_scaled
        v_z == IF Abs(y_center_error) > center_threshold
               THEN -vertical_speed * Sign(y_center_error) ELSE 0
        v_y_raw == Quot(max_speed * Abs(distance_error), target_distance) * Sign(distance_error)
        v_y_min == IF Abs(v_y_raw) < min_speed THEN min_speed * Sign(distance_error) ELSE v_y_raw
        v_y == IF is_centered_x(x_center_error) /\ ~is_at_distance
               THEN IF Abs(distance_error) < damping_zone THEN Quot(v_y_min * 4, 10) ELSE v_y_min
               ELSE 0
    IN  Cmd(v_x, v_y, v_z, yaw_rate)

\* fly(), at distance but not centred: the clipped proportional centring command
centering_command(x_center, y_center) ==
    LET half_w == FRAME_WIDTH \div 2
        half_h == FRAME_HEIGHT \div 2
        v_x == Quot(centering_speed * (x_center - half_w), half_w)
        v_z == Quot(-vertical_speed * (y_center - half_h), half_h)
        yaw_rate == Quot(yaw_speed * (x_center - half_w), half_w)
    IN  Cmd(Clip(v_x, -centering_speed, centering_speed), 0,
            Clip(v_z, -vertical_speed, vertical_speed),
            Clip(yaw_rate, -yaw_speed, yaw_speed))

\* faulty variant: the control law without its forward component
tracking_without_forward(distance, x_center, y_center) ==
    [calculate_control_speed(distance, x_center, y_center, FRAME_HEIGHT, FRAME_WIDTH)
        EXCEPT !.vy = 0]
\* fly(), not at distance: the control law, forward speed halved while correcting height
tracking_command(distance, x_center, y_center) ==
    LET c == calculate_control_speed(distance, x_center, y_center, FRAME_HEIGHT, FRAME_WIDTH)
    IN  IF Abs(c.vz) > 0 /\ distance * 10 < target_distance * 12
        THEN [c EXCEPT !.vy = Quot(c.vy, 2)]
        ELSE c

-----------------------------------------------------------------------------
(* One iteration of the frame loop of fly()                                 *)
(* Each branch returns the loop state after the iteration.  sc is           *)
(* time.time() - last_control_time as read in this iteration.               *)

NoCand == [id |-> NoMarker, smin |-> 0, smax |-> 1, pose |-> "fail", dist |-> 0, x |-> 0, y |-> 0]

Cur ==
    [target_reached |-> target_reached, retreat_mode |-> retreat_mode,
     retreat_elapsed |-> retreat_elapsed, since_control |-> since_control,
     retry_count |-> retry_count, frames_without_marker |-> frames_without_marker,
     current_aruco_id |-> current_aruco_id, locked_marker_id |-> locked_marker_id,
     marker_lost_frames |-> marker_lost_frames, scanned_markers |-> scanned_markers,
     scanned_qr_codes |-> scanned_qr_codes, yaw_search |-> yaw_search,
     current_search_phase |-> current_search_phase, current_height |-> current_height,
     successful_scans |-> successful_scans, items |-> items,
     cmds |-> <<>>, raised |-> FALSE, msgs |-> <<>>,
     ev |-> [branch |-> "none", frame |-> <<>>, lock_assigned |-> FALSE,
             selected |-> NoCand,
             no_valid_run |-> ev.no_valid_run, absent_run |-> ev.absent_run,
             absent_before |-> 0, retreat_wall |-> 0,
             qr |-> <<>>, outcome |-> "none", add_item_calls |-> 0, recorded |-> <<>>,
             fault |-> "none", fail_run |-> ev.fail_run,
             since_track |-> ev.since_track, track_gap |-> control_delay]]

\* observation: the candidate is valid as the design states it (confidence at or
\* above the threshold and its id not scanned yet)
ValidByDesign(c) ==
    c.smin * 100 >= aruco_confidence_threshold * c.smax /\ c.id \notin scanned_markers

HasValid(frame) == \E i \in 1..Len(frame) : ValidByDesign(frame[i])
SeesLocked(frame) ==
    \E i \in 1..Len(frame) : ValidByDesign(frame[i]) /\ frame[i].id = locked_marker_id

\* observation counters of a Following frame: consecutive frames without a valid
\* marker, and consecutive frames in which the locked marker was not a valid candidate
Observe(frame, r) ==
    LET absent == IF locked_marker_id = NoMarker \/ SeesLocked(frame) THEN 0
                  ELSE Min(max_lost_frames, ev.absent_run + 1)
    IN  [r EXCEPT !.ev.frame = frame,
                  !.ev.no_valid_run = IF HasValid(frame) THEN 0
                                      ELSE Min(retreat_after + 1, ev.no_valid_run + 1),
                  !.ev.absent_before = absent,
                  !.ev.absent_run = IF r.ev.lock_assigned THEN 0 ELSE absent]

\* current_time - last_control_time >= self.speed_settings['control_delay']
\* faulty variant: a tracking command is sent in every frame
always_due(sc) == TRUE
control_due(sc) == sc >= control_delay

\* lines 673-741: pose of the selected marker, hold / centring / control-law command;
\* at the target and centred: target_reached = True, time.sleep(5.0) (line 703),
\* and only then the hold command (line 704)
track(sel, sc, r) ==
    IF sel.pose # "ok" THEN r
    ELSE IF Abs(sel.dist - target_distance) <= distance_threshold
    THEN IF /\ Abs(sel.x - FRAME_WIDTH \div 2) < precise_center_threshold
            /\ Abs(sel.y - FRAME_HEIGHT \div 2) < precise_center_threshold
         THEN [r EXCEPT !.target_reached = TRUE,
                        !.since_control = Min(control_delay, sc + stabilization_sleep),
                        !.cmds = <<HoldCmd>>]
         ELSE IF control_due(sc)
         THEN [r EXCEPT !.cmds = <<centering_command(sel.x, sel.y)>>, !.since_control = 0]
         ELSE r
    ELSE IF control_due(sc)
    THEN [r EXCEPT !.cmds = <<tracking_command(sel.dist, sel.x, sel.y)>>, !.since_control = 0]
    ELSE r

\* lines 654-741: sel is the selected marker, newly locked or not
select(sel, newly, lost, sc, base) ==
    track(sel, sc,
          [base EXCEPT !.marker_lost_frames = lost,
                       !.locked_marker_id = sel.id,
                       !.current_aruco_id = sel.id,
                       !.frames_without_marker = 0,
                       !.ev.branch = "track",
                       !.ev.lock_assigned = newly,
                       !.ev.selected = sel,
                       \* observation: failed attempts in a row at the current marker
                       !.ev.fail_run = IF sel.id # current_aruco_id THEN 0 ELSE @])

\* lines 603-652: keep the locked marker (li: its index among valid, 0 when it is
\* not there), wait for it, or lock the nearest valid marker
lock_step(valid, li, sc, base) ==
    LET found == locked_marker_id # NoMarker /\ li # 0
        lost == IF found THEN 0
                ELSE IF locked_marker_id # NoMarker THEN marker_lost_frames + 1
                ELSE marker_lost_frames
    IN  IF ~found /\ locked_marker_id # NoMarker /\ lost < max_lost_frames
        THEN [base EXCEPT !.marker_lost_frames = lost, !.frames_without_marker = @ + 1,
                          !.ev.branch = "lock_wait"]
        ELSE IF found THEN select(valid[li], FALSE, lost, sc, base)
        ELSE select(valid[nearest_marker_idx(valid)], TRUE, lost, sc, base)

\* lines 598-601: no valid marker in the frame
follow_valid(valid, sc, base) ==
    IF valid = <<>>
    THEN [base EXCEPT !.frames_without_marker = @ + 1, !.ev.branch = "no_valid"]
    ELSE lock_step(valid, locked_index(valid), sc, base)

\* lines 574-741: markers detected and not retreating
following(frame, sc) ==
    follow_valid(valid_markers(frame), sc, [Cur EXCEPT !.since_control = sc])

\* retreat_elapsed_time < self.speed_settings['retreat_time']
\* faulty variant: the retreat is cut to half its duration
retreat_cut_short(re) == re < retreat_time \div 2
still_retreating(re) == re < retreat_time

\* lines 744-770: retreat in progress; re is time.time() - retreat_start_time
retreating(sc, re) ==
    IF still_retreating(re)
    THEN [Cur EXCEPT !.since_control = sc, !.retreat_elapsed = re,
                     !.cmds = <<RetreatCmd>>, !.ev.branch = "retreat"]
    ELSE [Cur EXCEPT !.retreat_mode = FALSE, !.target_reached = FALSE,
                     !.frames_without_marker = 0,
                     !.yaw_search = [active |-> TRUE, current_angle |-> 0, direction |-> 1],
                     !.since_control = 0, !.retreat_elapsed = 0,
                     !.cmds = <<HoldCmd>>, !.ev.branch = "retreat_end",
                     !.ev.no_valid_run = 0]

\* faulty variant: Retreating is entered without a command
retreat_silently(r) ==
    [r EXCEPT !.retreat_mode = TRUE, !.retreat_elapsed = 0, !.target_reached = FALSE]
\* faulty variant: Retreating is entered with target_reached left as it is
retreat_keeping_target(r) ==
    [r EXCEPT !.retreat_mode = TRUE, !.retreat_elapsed = 0,
              !.cmds = Append(r.cmds, RetreatCmd)]
\* entering Retreating: retreat_mode, retreat_start_time = now, backward command
start_retreat(r) ==
    [r EXCEPT !.retreat_mode = TRUE, !.retreat_elapsed = 0, !.target_reached = FALSE,
              !.cmds = Append(r.cmds, RetreatCmd)]

\* lines 771-810: no marker detected and not retreating
searching(sc) ==
    LET n == frames_without_marker + 1
        base == [Cur EXCEPT !.since_control = sc, !.frames_without_marker = n,
                            !.ev.branch = "search"]
        new_angle == yaw_search.current_angle
                     + yaw_search.direction * yaw_step_rate * control_delay
        yawed ==
            IF n > yaw_search_after /\ yaw_search.active
            THEN IF sc >= control_delay
                 THEN [base EXCEPT
                         !.cmds = <<Cmd(0, 0, 0, yaw_search.direction * yaw_speed)>>,
                         !.yaw_search.direction =
                             IF Abs(new_angle) >= Abs(yaw_max_angle) THEN -@ ELSE @,
                         !.yaw_search.current_angle = new_angle,
                         !.since_control = 0]
                 ELSE base
            ELSE IF n <= yaw_search_after /\ yaw_search.active
            THEN [base EXCEPT !.yaw_search.active = FALSE]
            ELSE base
    IN  IF n > retreat_after /\ ~retreat_mode
        THEN start_retreat([yawed EXCEPT !.yaw_search.active = FALSE])
        ELSE yawed

\* lines 848-874: no code in the frame, vertical search sweep
sweep(sc) ==
    LET base == [Cur EXCEPT !.since_control = sc, !.ev.branch = "sweep"]
        move(vz, phase) ==
            [base EXCEPT !.cmds = <<Cmd(0, 0, vz, 0)>>,
                         !.current_search_phase = phase,
                         !.current_height = @ + vz * control_delay,
                         !.since_control = 0]
    IN  IF sc < control_delay THEN base
        ELSE IF current_search_phase = "up"
        THEN IF current_height >= max_search_height
             THEN move(-(vertical_speed \div 2), "down")
             ELSE move(vertical_speed, "up")
        \* current_height <= self.initial_height with initial_height = None: TypeError
        ELSE [base EXCEPT !.raised = TRUE, !.ev.branch = "raise"]

\* lines 812-847: a code was decoded
scan_result(res, qr_data, sc) ==
    LET base == [Cur EXCEPT !.since_control = sc, !.ev.branch = "scan",
                            !.ev.qr = qr_data, !.ev.outcome = res.outcome.kind,
                            !.ev.add_item_calls = res.add_item_calls,
                            !.ev.recorded = res.recorded,
                            !.items = res.items,
                            !.scanned_qr_codes = res.scanned_qr_codes,
                            !.msgs = res.msgs]
    IN  IF res.raised
        \* the exception leaves the loop at line 816
        THEN [base EXCEPT !.successful_scans = res.successful_scans,
                          !.raised = TRUE, !.ev.branch = "raise"]
        ELSE IF res.ok
        THEN LET done == [base EXCEPT
                            !.ev.fail_run = 0,
                            !.successful_scans = res.successful_scans + 1,
                            !.scanned_markers =
                                IF current_aruco_id # NoMarker
                                THEN @ \cup {current_aruco_id} ELSE @]
             IN  IF ~retreat_mode THEN start_retreat(done) ELSE done
        ELSE LET failed == [base EXCEPT !.retry_count = @ + 1,
                                        !.ev.fail_run = Min(retry_limit, @ + 1)]
             IN  IF failed.retry_count >= retry_limit /\ ~retreat_mode
                 THEN start_retreat(failed) ELSE failed

scanning(qr_data, db, sc) == scan_result(process_qr_data(qr_data, db), qr_data, sc)

\* the body of "while True": frame = detected candidates (<<>>: ids is None),
\* dt = time since the previous iteration, qr_data = decoded text (<<>>: none)
iteration(frame, sc, re, wall, qr_data, db) ==
    IF ~target_reached
    THEN IF frame # <<>> /\ ~retreat_mode THEN Observe(frame, following(frame, sc))
         ELSE IF retreat_mode
         THEN [retreating(sc, re) EXCEPT !.ev.frame = frame, !.ev.retreat_wall = wall]
         ELSE Observe(frame, searching(sc))
    ELSE IF qr_data # <<>> THEN scanning(qr_data, db, sc)
    ELSE sweep(sc)

\* set_manual_speed_body_fixed raises at its first call of the iteration whose
\* fault-free outcome is r: inside the try of lines 673-741 the exception is caught
\* and the iteration ends ("continue"); anywhere else it leaves the loop with the
\* assignments made before the call
connection_raised(r, sc) ==
    LET out(st) == [st EXCEPT !.cmds = <<>>, !.raised = TRUE, !.ev = r.ev,
                              !.ev.branch = "raise", !.ev.fault = "connection"]
    IN  IF r.ev.branch = "track"
        THEN [r EXCEPT !.cmds = <<>>, !.ev.fault = "connection",
                       !.since_control = IF r.target_reached THEN @ ELSE sc]
        ELSE IF r.ev.branch = "retreat_end"
        THEN out([Cur EXCEPT !.since_control = sc])
        ELSE IF r.ev.branch = "search" /\ r.cmds[1] # RetreatCmd
        THEN out([Cur EXCEPT !.since_control = sc,
                             !.frames_without_marker = r.frames_without_marker])
        ELSE IF r.ev.branch = "sweep"
        THEN out([r EXCEPT !.current_height = current_height, !.since_control = sc])
        ELSE out(r)

\* fault: "detector" (detectMarkers raises, line 571), "connection"
\* (set_manual_speed_body_fixed raises), or what process_qr_data is given as db
with_fault(fault, sc, r) ==
    IF fault = "detector" /\ ~target_reached
    THEN [Cur EXCEPT !.since_control = sc, !.raised = TRUE, !.ev.frame = r.ev.frame,
                     !.ev.branch = "raise", !.ev.fault = "detector"]
    ELSE IF fault = "connection" /\ r.cmds # <<>>
    THEN connection_raised(r, sc)
    ELSE r

faulty_iteration(sc, frame, re, wall, qr_data, db) ==
    with_fault(db, sc, iteration(frame, sc, re, wall, qr_data, db))

\* observation: st is the time since the last tracking command (control law or
\* centring at distance) as this iteration finds it; when the iteration sends
\* such a command, track_gap is the time that separates it from the one before
Timed(st, r) ==
    LET sent == r.ev.branch = "track" /\ r.cmds # <<>> /\ ~r.target_reached
    IN  [r EXCEPT !.ev.since_track = IF sent THEN 0 ELSE st,
                  !.ev.track_gap = IF sent THEN st ELSE control_delay]

timed_iteration(frame, dt, qr_data, db) ==
    faulty_iteration(Min(control_delay, since_control + dt), frame,
                     Min(retreat_time, retreat_elapsed + dt),
                     \* observation: wall-clock time since Retreating was entered
                     Min(retreat_time, ev.retreat_wall + dt), qr_data, db)

loop_body(frame, dt, qr_data, db) ==
    Timed(Min(control_delay, ev.since_track + dt), timed_iteration(frame, dt, qr_data, db))

-----------------------------------------------------------------------------
(* State after ArucoFlight.__init__ and initialize(); dbs: possible contents *)
(* of table items, uuids: possible session uuids, chats: possible chat ids  *)

\* telegram_queue = Queue(): maxsize 0, a put waits only when maxsize > 0 and
\* the queue holds maxsize messages
maxsize == 0
\* faulty variant: the queue holds one message at most
full_at_one(q) == Len(q) >= 1
full(q) == maxsize > 0 /\ Len(q) >= maxsize

\* "if self.telegram_initialized: telegram_queue.put(..)" for each of msgs
Enqueued(msgs) == IF telegram_initialized THEN telegram_queue \o msgs ELSE telegram_queue
\* the puts of msgs do not have to wait
CanPut(msgs) == telegram_initialized /\ msgs # <<>> => ~full(telegram_queue)

InitChat(dbs, uuids, chats) ==
    /\ pc = "start"
    /\ wait_elapsed = 0
    /\ \E chat_id \in chats :
          /\ telegram_initialized = (chat_id # None)
          /\ telegram_queue = IF chat_id # None THEN <<"initialized">> ELSE <<>>
          /\ worker_pc = IF chat_id # None THEN "check" ELSE "none"
    /\ should_stop = FALSE
    /\ message = None
    /\ forwarded = <<>>
    /\ is_flying = FALSE
    /\ session_uuid \in uuids
    /\ stack = <<>>
    /\ signals = 0
    /\ calls = <<>>
    /\ target_reached = FALSE
    /\ retreat_mode = FALSE
    /\ retreat_elapsed = 0
    /\ since_control = 0
    /\ retry_count = 0
    /\ frames_without_marker = 0
    /\ current_aruco_id = NoMarker
    /\ locked_marker_id = NoMarker
    /\ marker_lost_frames = 0
    /\ scanned_markers = {}
    /\ scanned_qr_codes = {}
    /\ yaw_search = [active |-> FALSE, current_angle |-> 0, direction |-> 1]
    /\ current_search_phase = "up"
    /\ current_height = min_height
    /\ successful_scans = 0
    /\ items \in dbs
    /\ cmds = <<>>
    /\ ev = [branch |-> "none", frame |-> <<>>, lock_assigned |-> FALSE,
             selected |-> NoCand,
             no_valid_run |-> 0, absent_run |-> 0, absent_before |-> 0, retreat_wall |-> 0,
             qr |-> <<>>, outcome |-> "none", add_item_calls |-> 0, recorded |-> <<>>,
             fault |-> "none", fail_run |-> 0,
             since_track |-> control_delay, track_gap |-> control_delay]

InitWith(dbs, uuids) == InitChat(dbs, uuids, {None})

-----------------------------------------------------------------------------
(* fly(): take-off, lines 537-562 *)

\* the start message is enqueued; arm() and takeoff() have returned
Takeoff ==
    /\ pc = "start" /\ stack = <<>>
    /\ CanPut(<<"start">>)
    /\ pc' = "airborne"
    /\ calls' = Append(calls, "takeoff")
    /\ telegram_queue' = Enqueued(<<"start">>)
    /\ UNCHANGED <<is_flying, session_uuid, stack, signals, loopVars, wait_elapsed, dispatchVars>>

\* self.is_flying = True
SetFlying ==
    /\ pc = "airborne" /\ stack = <<>>
    /\ pc' = "climb"
    /\ is_flying' = TRUE
    /\ UNCHANGED <<session_uuid, stack, signals, calls, loopVars, wait_elapsed, telegram_queue, dispatchVars>>

\* go_to_local_point(z = 0.95), wait for point_reached, initialise the loop locals
ReachAltitude ==
    /\ pc = "climb" /\ stack = <<>>
    /\ pc' = "loop"
    /\ UNCHANGED <<is_flying, session_uuid, stack, signals, calls, loopVars, wait_elapsed, telegram_queue, dispatchVars>>

-----------------------------------------------------------------------------
(* fly(): the frame loop *)

\* the loop state r takes effect; the counters stay within the model's bounds
Commit(r) ==
    /\ CanPut(r.msgs)
    /\ Len(Enqueued(r.msgs)) <= MaxQueue
    /\ r.frames_without_marker <= MaxNoMarker
    /\ r.marker_lost_frames <= MaxLost
    /\ r.retry_count <= MaxRetry
    /\ r.successful_scans <= MaxScans
    /\ target_reached' = r.target_reached
    /\ retreat_mode' = r.retreat_mode
    /\ retreat_elapsed' = r.retreat_elapsed
    /\ since_control' = r.since_control
    /\ retry_count' = r.retry_count
    /\ frames_without_marker' = r.frames_without_marker
    /\ current_aruco_id' = r.current_aruco_id
    /\ locked_marker_id' = r.locked_marker_id
    /\ marker_lost_frames' = r.marker_lost_frames
    /\ scanned_markers' = r.scanned_markers
    /\ scanned_qr_codes' = r.scanned_qr_codes
    /\ yaw_search' = r.yaw_search
    /\ current_search_phase' = r.current_search_phase
    /\ current_height' = r.current_height
    /\ successful_scans' = r.successful_scans
    /\ items' = r.items
    /\ cmds' = r.cmds
    /\ ev' = r.ev
    /\ telegram_queue' = Enqueued(r.msgs)
    \* an exception leaves the loop for "except Exception" and the finally block
    /\ pc' = IF r.raised THEN "finally" ELSE "loop"

Step(frame, dt, qr_data, db) ==
    /\ pc = "loop" /\ stack = <<>>
    /\ Commit(loop_body(frame, dt, qr_data, db))
    /\ UNCHANGED <<is_flying, session_uuid, stack, signals, calls, wait_elapsed, dispatchVars>>

\* an iteration in Following (not target_reached, not retreat_mode)
FollowFrame(frames, gaps) ==
    /\ ~target_reached /\ ~retreat_mode
    /\ \E f \in frames, dt \in gaps : Step(f, dt, <<>>, "ok")

\* an iteration in Retreating (retreat_mode)
RetreatFrame(frames, gaps) ==
    /\ retreat_mode
    /\ \E f \in frames, dt \in gaps : Step(f, dt, <<>>, "ok")

\* an iteration outside ScanningCode in which a call may raise
FaultyFrame(frames, gaps, faults) ==
    /\ ~target_reached
    /\ \E f \in frames, dt \in gaps, fault \in faults : Step(f, dt, <<>>, fault)

\* an iteration in ScanningCode (target_reached)
ScanFrame(texts, gaps, dbmodes) ==
    /\ target_reached
    /\ \E q \in texts, dt \in gaps, db \in dbmodes : Step(<<>>, dt, q, db)

-----------------------------------------------------------------------------
(* Leaving the loop, the finally block of fly(), safe_landing() and signals  *)
(* safe_landing runs on the main thread, either called from the finally      *)
(* block or as the SIGINT/SIGTERM handler on top of whatever was running;    *)
(* stack holds the position of every active invocation:                      *)
(*   "begin" 228-232, "return" 233-235, "wait" 236-237, "land" 242-243,      *)
(*   "sleep" 244-245, "close" 247-248, "finalize" 254-258, "exit" 261-262.   *)
(* faults: which calls of the step raise ("ok": none, "notify":              *)
(* telegram_queue.put, "end_session": end_scan_session, "connection": a      *)
(* call on the flight connection).                                           *)

\* key == 27 or the window was closed: break
EscPressed ==
    /\ pc = "loop" /\ stack = <<>>
    /\ pc' = "finally"
    /\ calls' = Append(calls, "break")
    /\ UNCHANGED <<is_flying, session_uuid, stack, signals, loopVars, wait_elapsed, telegram_queue, dispatchVars>>

\* an exception raised in the loop reaches "except Exception" of fly()
LoopException ==
    /\ pc = "loop" /\ stack = <<>>
    /\ pc' = "finally"
    /\ calls' = Append(calls, "except")
    /\ UNCHANGED <<is_flying, session_uuid, stack, signals, loopVars, wait_elapsed, telegram_queue, dispatchVars>>

\* save_scan_results(): end_scan_session(session_uuid, "completed", report) and
\* the summary message.  An exception is caught at line 521 and reported with a
\* put of its own (line 525); when that put raises, the exception leaves
\* save_scan_results and the finally block of fly(), and reaches main()
SaveResults(faults) ==
    /\ pc = "finally" /\ stack = <<>>
    /\ \E fault \in faults :
          IF session_uuid = None
          THEN pc' = "saved" /\ UNCHANGED <<calls, telegram_queue>>
          ELSE IF fault = "end_session"
          THEN /\ CanPut(<<"save_error">>)
               /\ pc' = "saved"
               /\ calls' = Append(calls, "end_session_failed")
               /\ telegram_queue' = Enqueued(<<"save_error">>)
          ELSE IF fault = "notify" /\ telegram_initialized
          THEN /\ pc' = "crashed"
               /\ calls' = Append(calls, "end_session")
               /\ UNCHANGED telegram_queue
          ELSE /\ CanPut(<<"summary">>)
               /\ pc' = "saved"
               /\ calls' = Append(calls, "end_session")
               /\ telegram_queue' = Enqueued(<<"summary">>)
    /\ UNCHANGED <<is_flying, session_uuid, stack, signals, loopVars, wait_elapsed, dispatchVars>>

\* finally: self.safe_landing()
CallSafeLanding ==
    /\ pc = "saved" /\ stack = <<>>
    /\ pc' = "in_landing"
    /\ stack' = <<"begin">>
    /\ UNCHANGED <<is_flying, session_uuid, signals, calls, loopVars, wait_elapsed, telegram_queue, dispatchVars>>

\* SIGINT / SIGTERM delivered: the handler safe_landing starts on top
Signal ==
    /\ pc # "exited"
    /\ signals < MaxSignals
    /\ signals' = signals + 1
    /\ stack' = Append(stack, "begin")
    /\ calls' = Append(calls, IF pc = "loop" /\ stack = <<>> THEN "signal_in_loop" ELSE "signal")
    /\ UNCHANGED <<pc, is_flying, session_uuid, loopVars, wait_elapsed, telegram_queue, dispatchVars>>

Top == stack[Len(stack)]
SetTop(p) == [stack EXCEPT ![Len(stack)] = p]

\* the put of line 230, then "if self.is_flying and self.mini"; a put that raises
\* is caught at line 250, past everything the try block holds
LandingBegin(faults) ==
    /\ stack # <<>> /\ Top = "begin"
    /\ \E fault \in faults :
          IF fault = "notify" /\ telegram_initialized
          THEN stack' = SetTop("finalize") /\ UNCHANGED telegram_queue
          ELSE /\ CanPut(<<"interrupted">>)
               /\ stack' = SetTop(IF is_flying THEN "return" ELSE "close")
               /\ telegram_queue' = Enqueued(<<"interrupted">>)
    /\ UNCHANGED <<pc, is_flying, session_uuid, signals, calls, loopVars, wait_elapsed, dispatchVars>>

\* go_to_local_point(0, 0, 0.8), timeout = time.time() + 10; an exception is
\* caught at line 239
\* faulty variant: an exception of the return command skips the landing
landing_skipped_on_error(raised) == IF raised THEN "close" ELSE "wait"
after_return(raised) == IF raised THEN "land" ELSE "wait"

LandingReturn(faults) ==
    /\ stack # <<>> /\ Top = "return"
    /\ \E fault \in faults :
          /\ stack' = SetTop(after_return(fault = "connection"))
          /\ calls' = Append(calls, IF fault = "connection" THEN "go_home_failed"
                                    ELSE "go_home")
    /\ wait_elapsed' = 0
    /\ UNCHANGED <<pc, is_flying, session_uuid, signals, loopVars, telegram_queue, dispatchVars>>

\* time.time() < timeout is false
\* faulty variant: the timeout is not consulted
never_timed_out(elapsed) == FALSE
timed_out(elapsed) == elapsed >= landing_timeout

\* "while not point_reached() and time.time() < timeout: time.sleep(0.1)":
\* one evaluation of the condition; ticks: how long a sleep can take;
\* point_reached() raising is caught at line 239
LandingWait(ticks, faults) ==
    /\ stack # <<>> /\ Top = "wait"
    /\ \E reached \in BOOLEAN, fault \in faults, t \in ticks :
          IF fault = "connection" \/ reached \/ timed_out(wait_elapsed)
          THEN stack' = SetTop("land") /\ UNCHANGED wait_elapsed
          ELSE /\ wait_elapsed' = Min(landing_timeout, wait_elapsed + t)
               /\ UNCHANGED stack
    /\ UNCHANGED <<pc, is_flying, session_uuid, signals, calls, loopVars, telegram_queue, dispatchVars>>

\* self.mini.land()
LandingLand ==
    /\ stack # <<>> /\ Top = "land"
    /\ stack' = SetTop("sleep")
    /\ calls' = Append(calls, "land")
    /\ UNCHANGED <<pc, is_flying, session_uuid, signals, loopVars, wait_elapsed, telegram_queue, dispatchVars>>

\* time.sleep(3); self.is_flying = False
LandingLanded ==
    /\ stack # <<>> /\ Top = "sleep"
    /\ stack' = SetTop("close")
    /\ is_flying' = FALSE
    /\ UNCHANGED <<pc, session_uuid, signals, calls, loopVars, wait_elapsed, telegram_queue, dispatchVars>>

\* "if self.mini: self.mini.close_connection()"
LandingClose ==
    /\ stack # <<>> /\ Top = "close"
    /\ stack' = SetTop("finalize")
    /\ calls' = Append(calls, "close")
    /\ UNCHANGED <<pc, is_flying, session_uuid, signals, loopVars, wait_elapsed, telegram_queue, dispatchVars>>

\* finally: "if self.session_uuid: end_scan_session(self.session_uuid)" and the
\* put of line 258, both inside try / except Exception
LandingFinalize(faults) ==
    /\ stack # <<>> /\ Top = "finalize"
    /\ stack' = SetTop("exit")
    /\ \E fault \in faults :
          IF session_uuid = None
          THEN UNCHANGED <<calls, telegram_queue>>
          ELSE IF fault = "end_session"
          THEN calls' = Append(calls, "end_session_failed") /\ UNCHANGED telegram_queue
          ELSE IF fault = "notify" /\ telegram_initialized
          THEN calls' = Append(calls, "end_session") /\ UNCHANGED telegram_queue
          ELSE /\ CanPut(<<"finished">>)
               /\ calls' = Append(calls, "end_session")
               /\ telegram_queue' = Enqueued(<<"finished">>)
    /\ UNCHANGED <<pc, is_flying, session_uuid, signals, loopVars, wait_elapsed, dispatchVars>>

\* positions inside "try:" of safe_landing: SystemExit passing through runs its finally
InTryOfLanding(p) == p \in {"begin", "return", "wait", "land", "sleep", "close"}
\* positions inside "try:" of fly(): SystemExit passing through runs its finally
InTryOfFly(p) == p \in {"start", "airborne", "climb", "loop"}

\* SystemExit leaving the innermost invocation: the invocations it passes through
\* that are already in their finally block are abandoned
RECURSIVE Unwind(_)
Unwind(st) ==
    IF st = <<>> THEN st
    ELSE IF InTryOfLanding(st[Len(st)]) THEN [st EXCEPT ![Len(st)] = "finalize"]
    ELSE Unwind(SubSeq(st, 1, Len(st) - 1))

\* cv2.destroyAllWindows(); sys.exit(0)
LandingExit ==
    /\ stack # <<>> /\ Top = "exit"
    /\ LET rest == Unwind(SubSeq(stack, 1, Len(stack) - 1))
       IN  /\ stack' = rest
           /\ pc' = IF rest # <<>> THEN pc
                    ELSE IF InTryOfFly(pc) THEN "finally"
                    ELSE "exited"
    /\ UNCHANGED <<is_flying, session_uuid, signals, calls, loopVars, wait_elapsed, telegram_queue, dispatchVars>>

Count(name) == Cardinality({i \in 1..Len(calls) : calls[i] = name})

-----------------------------------------------------------------------------
(* main(): the finally block; telegram_worker on its own thread              *)

\* initialize(): _init_drone, _init_camera or _load_camera_calibration raises
\* (lines 174-176); the exception is caught at line 179 and reported, initialize
\* returns False and main() returns at line 928 without calling fly()
InitializeFailed ==
    /\ pc = "start" /\ stack = <<>>
    /\ CanPut(<<"init_error">>)
    /\ pc' = "returned"
    /\ telegram_queue' = Enqueued(<<"init_error">>)
    /\ UNCHANGED <<is_flying, session_uuid, stack, signals, calls, loopVars, wait_elapsed,
                   dispatchVars>>

\* SystemExit or an exception of fly() has reached main(), or main() returns
\* after a failed initialize(): should_stop = True
MainFinally ==
    /\ pc \in {"exited", "crashed", "returned"} /\ stack = <<>>
    /\ pc' = "joining"
    /\ should_stop' = TRUE
    /\ UNCHANGED <<is_flying, session_uuid, stack, signals, calls, wait_elapsed, loopVars,
                   telegram_queue, telegram_initialized, worker_pc, message, forwarded>>

\* telegram_thread.join(timeout=2.0) returns once the worker, whose longest wait
\* is the 1.0 s of get, has left its loop; main() returns
MainJoin ==
    /\ pc = "joining" /\ worker_pc \in {"none", "stopped"}
    /\ pc' = "terminated"
    /\ UNCHANGED <<is_flying, session_uuid, stack, signals, calls, wait_elapsed, loopVars,
                   telegram_queue, dispatchVars>>

workerRest == <<shutdownVars, loopVars, telegram_initialized, should_stop>>

\* "while not should_stop"
WorkerCheck ==
    /\ worker_pc = "check"
    /\ worker_pc' = IF should_stop THEN "stopped" ELSE "get"
    /\ UNCHANGED <<workerRest, telegram_queue, message, forwarded>>

\* telegram_queue.get(timeout=1.0) returns the oldest message
WorkerGet ==
    /\ worker_pc = "get" /\ telegram_queue # <<>>
    /\ message' = Head(telegram_queue)
    /\ telegram_queue' = Tail(telegram_queue)
    /\ worker_pc' = "forward"
    /\ UNCHANGED <<workerRest, forwarded>>

\* nothing arrived within the timeout: queue.Empty, "except: continue"
WorkerEmpty ==
    /\ worker_pc = "get" /\ telegram_queue = <<>>
    /\ worker_pc' = "check"
    /\ UNCHANGED <<workerRest, telegram_queue, message, forwarded>>

\* print(message); when it raises, "except: continue" goes on with the loop
WorkerForward(faults) ==
    /\ worker_pc = "forward"
    /\ \E fault \in faults :
          forwarded' = IF fault = "ok" THEN Append(forwarded, message) ELSE forwarded
    /\ message' = None
    /\ worker_pc' = "check"
    /\ UNCHANGED <<workerRest, telegram_queue>>

-----------------------------------------------------------------------------
(* database.add_item called on its own *)

\* add_item(qr_code, name, shelf, position); observation: the arguments, and
\* which way the call went ("updated": existing_item was found, line 103)
AddItemCall(codes, names, shelves, positions) ==
    /\ \E qr_code \in codes, name \in names, shelf \in shelves, position \in positions :
          /\ items' = add_item(qr_code, name, shelf, position)
          /\ ev' = [ev EXCEPT !.branch = "add_item", !.qr = qr_code,
                              !.outcome = IF \E it \in items : it.qr_code = clean_string(qr_code)
                                          THEN "updated" ELSE "inserted",
                              !.add_item_calls = 1,
                              !.recorded = <<name, shelf, position>>]
    /\ UNCHANGED <<shutdownVars, telegram_queue, dispatchVars, target_reached, retreat_mode,
                   retreat_elapsed, since_control, retry_count, frames_without_marker,
                   current_aruco_id, locked_marker_id, marker_lost_frames, scanned_markers,
                   scanned_qr_codes, yaw_search, current_search_phase, current_height,
                   successful_scans, cmds>>

-----------------------------------------------------------------------------
(* Inputs: detected candidates, decoded texts, time between iterations *)

Cand(id, smin, smax, pose, dist, x, y) ==
    [id |-> id, smin |-> smin, smax |-> smax, pose |-> pose, dist |-> dist, x |-> x, y |-> y]

\* a square marker at the target distance in the middle of the image
AtTarget(id) == Cand(id, 90, 100, "ok", 135, 320, 240)
\* a square marker farther away
Far(id) == Cand(id, 90, 100, "ok", 200, 320, 240)
\* a skewed marker (confidence 0.5), nearer than any other
Skewed(id) == Cand(id, 50, 100, "ok", 100, 320, 240)
\* a marker exactly at the confidence threshold
AtThreshold(id) == Cand(id, 65, 100, "ok", 180, 320, 240)
\* a square marker whose pose cannot be solved
Unsolved(id) == Cand(id, 90, 100, "fail", 0, 320, 240)

Singles(cands) == {<<c>> : c \in cands}

NavCands == {AtTarget(0), Far(1), Far(5), Skewed(0)}
NavFrames ==
    {<<>>} \cup Singles(NavCands)
    \cup {<<Skewed(0), Far(1)>>, <<Far(1), AtTarget(0)>>, <<Unsolved(5), Far(1)>>}
NavGaps == {15}

\* decoded texts
T_VALID == <<"i", "d", ":", "a", "1", ",", "predmet", ":", "B">>
T_UPPER == <<"I", "D", ":", "A", "1", ",", "Predmet", ":", "B">>
T_GAP == <<"i", "d", ":", "a", " ", " ", "1", ",", "predmet", ":", "B">>
T_NOID == <<"predmet", ":", "B">>
T_NOCOLON == <<"predmet", " ", "B">>
\* identifier abc123 and name K, plain and with upper-case key and blanks
T_ABC == <<"i", "d", ":", "a", "b", "c", "1", "2", "3", ",", "predmet", ":", "K">>
T_ABC_SP ==
    <<"I", "D", ":", " ", "a", "b", "c", "1", "2", "3", ",", " ", "predmet", ":", " ", "K">>
\* identifier a, contained in the identifier a1 of T_VALID
T_SUB == <<"i", "d", ":", "a", ",", "predmet", ":", "K">>
NoCode == <<>>

-----------------------------------------------------------------------------
(* Specifications *)

\* marker lock and phase changes
NavFollow == FollowFrame(NavFrames, NavGaps)
NavRetreat == RetreatFrame({<<>>, <<Far(1)>>}, NavGaps)
NavScan == ScanFrame({T_VALID}, NavGaps, {"ok"})

Init == InitWith({{}}, {"u1"})
Next == Takeoff \/ SetFlying \/ ReachAltitude \/ NavFollow \/ NavRetreat \/ NavScan
Spec == Init /\ [][Next]_vars

\* code processing
ScanTexts == {T_VALID, T_GAP, T_NOID, T_NOCOLON, T_ABC, T_ABC_SP, T_SUB}
ScanFrames == {<<AtTarget(0)>>, <<AtTarget(1)>>, <<AtTarget(5)>>}
ScanGaps == {30}
ScanFollow == FollowFrame(ScanFrames, ScanGaps)
ScanRetreat == RetreatFrame({<<>>}, ScanGaps)
ScanCode == ScanFrame(ScanTexts, ScanGaps, {"ok"})

NextScan == Takeoff \/ SetFlying \/ ReachAltitude \/ ScanFollow \/ ScanRetreat \/ ScanCode
SpecScan == Init /\ [][NextScan]_vars

\* velocity commands
CtlX == {64, 240, 320, 400, 576}
CtlY == {120, 240, 360}
CtlDist == {60, 129, 135, 141, 200, 405}
CtlCands == {Cand(0, 90, 100, "ok", d, x, y) : d \in CtlDist, x \in CtlX, y \in CtlY}
\* markers just inside and exactly at the edge of the centring zone
CtlEdge == {Cand(0, 90, 100, "ok", d, x, 240) : d \in {60, 200}, x \in {250, 380}}
CtlFrames == {<<>>, <<Skewed(0)>>} \cup Singles(CtlCands \cup CtlEdge)
CtlGaps == {4, 10}
CtlFollow == FollowFrame(CtlFrames, CtlGaps)
CtlRetreat == RetreatFrame({<<>>}, CtlGaps)
CtlScan == ScanFrame({NoCode}, CtlGaps, {"ok"})

NextCtl == Takeoff \/ SetFlying \/ ReachAltitude \/ CtlFollow \/ CtlRetreat \/ CtlScan
SpecCtl == Init /\ [][NextCtl]_vars

\* approach of one marker by a drone that obeys the velocity commands: the next
\* frame shows the marker where the last command, held for TrackGap, has moved it
\* (forward speed shortens the distance; a metre sideways or up moves the marker
\* by 100 or by 400 px of image, the response varying from frame to frame)
TrackGap == 10
PixelsPerMetre == {100, 400}
Moved(c, cmd, g) ==
    [c EXCEPT !.dist = @ - Quot(cmd.vy * TrackGap, 1000),
              !.x = @ - Quot(cmd.vx * TrackGap * g, 100000),
              !.y = @ + Quot(cmd.vz * TrackGap * g, 100000)]
TrackStart ==
    {Cand(0, 90, 100, "ok", 200, x, y) : x \in {150, 240, 320, 420, 560},
                                         y \in {100, 240, 330, 400}}
TrackViews ==
    IF ev.frame = <<>> THEN Singles(TrackStart)
    ELSE IF cmds = <<>> THEN {ev.frame}
    ELSE {<<Moved(ev.frame[1], cmds[Len(cmds)], g)>> : g \in PixelsPerMetre}
TrackFollow == FollowFrame(TrackViews, {TrackGap})

NextTrack == Takeoff \/ SetFlying \/ ReachAltitude \/ TrackFollow
SpecTrack == Init /\ [][NextTrack]_vars

\* session end and termination signals
ExitFollow == FollowFrame({<<>>}, NavGaps)
ExitRetreat == RetreatFrame({<<>>}, NavGaps)

InitExit == InitWith({{}}, {"u1", None})
NextExit ==
    \/ Takeoff \/ SetFlying \/ ReachAltitude \/ ExitFollow \/ ExitRetreat
    \/ EscPressed \/ LoopException \/ SaveResults({"ok"}) \/ CallSafeLanding \/ Signal
    \/ LandingBegin({"ok"}) \/ LandingReturn({"ok"}) \/ LandingWait({landing_timeout}, {"ok"})
    \/ LandingLand \/ LandingLanded
    \/ LandingClose \/ LandingFinalize({"ok"}) \/ LandingExit
SpecExit == InitExit /\ [][NextExit]_vars

\* landing after the loop has ended normally, with and without a chat id; the
\* return command or point_reached() may raise, print may raise in the worker
LandFaults == {"ok", "connection"}
LandTicks == {30, 45}
InitLand == InitChat({{}}, {"u1"}, {"chat", None})
NextLand ==
    \/ Takeoff \/ SetFlying \/ ReachAltitude
    \/ EscPressed \/ SaveResults({"ok"}) \/ CallSafeLanding
    \/ LandingBegin({"ok"}) \/ LandingReturn(LandFaults) \/ LandingWait(LandTicks, LandFaults)
    \/ LandingLand \/ LandingLanded \/ LandingClose \/ LandingFinalize({"ok"})
    \/ LandingExit \/ MainFinally \/ MainJoin
    \/ WorkerCheck \/ WorkerGet \/ WorkerEmpty \/ WorkerForward({"ok", "print"})
SpecLand == InitLand /\ [][NextLand]_vars

\* a flight with a chat id in which calls raise: the detector, the pose solver
\* (candidate with pose "raise"), the flight connection, find_item, add_item,
\* end_scan_session, telegram_queue.put; the dispatcher is not scheduled
FaultFrames == {<<>>, <<AtTarget(0)>>, <<Cand(0, 90, 100, "raise", 0, 320, 240)>>}
FaultFollow == FaultyFrame(FaultFrames, NavGaps, {"ok", "detector", "connection"})
FaultScan == ScanFrame({T_VALID, T_NOID}, NavGaps, {"ok", "find", "add", "notify", "connection"})
SessionFaults == {"ok", "end_session", "notify"}
InitFault == InitChat({{}}, {"u1"}, {"chat"})
NextFault ==
    \/ Takeoff \/ SetFlying \/ ReachAltitude \/ FaultFollow \/ FaultScan
    \/ EscPressed \/ SaveResults(SessionFaults) \/ CallSafeLanding
    \/ LandingBegin({"ok", "notify"}) \/ LandingReturn({"ok"})
    \/ LandingWait({landing_timeout}, {"ok"})
    \/ LandingLand \/ LandingLanded \/ LandingClose \/ LandingFinalize(SessionFaults)
    \/ LandingExit
SpecFault == InitFault /\ [][NextFault]_vars

\* the whole of main(): initialize() may fail before the flight starts; the
\* flight ends by ESC; with and without a chat id
NextMain ==
    \/ InitializeFailed \/ Takeoff \/ SetFlying \/ ReachAltitude
    \/ EscPressed \/ SaveResults({"ok"}) \/ CallSafeLanding
    \/ LandingBegin({"ok"}) \/ LandingReturn({"ok"}) \/ LandingWait(LandTicks, {"ok"})
    \/ LandingLand \/ LandingLanded \/ LandingClose \/ LandingFinalize({"ok"})
    \/ LandingExit \/ MainFinally \/ MainJoin
    \/ WorkerCheck \/ WorkerGet \/ WorkerEmpty \/ WorkerForward({"ok"})
SpecMain == InitLand /\ [][NextMain]_vars

\* sequences of add_item calls: codes with and without blanks (two of them the
\* same once normalized), two names, the locations of markers 0 and 4
ItemCodes == {<<"a", "1">>, <<"a", " ", "1">>, <<"a", " ", " ", "1">>, <<" ", "a", "1">>}
ItemNames == {<<"B">>, <<"K">>}
ItemMarkers == {0, 4}
NextItems ==
    AddItemCall(ItemCodes, ItemNames, {shelf_text(m) : m \in ItemMarkers},
                {position_text(m) : m \in ItemMarkers})
SpecItems == Init /\ [][NextItems]_vars


-----------------------------------------------------------------------------
(* Properties: session end (SpecExit) *)

\* the loop was left by ESC / window close or by an exception and no signal came,
\* or one signal came, while the loop was running
ListedExitPath ==
    \/ signals = 0
    \/ signals = 1 /\ Count("signal_in_loop") = 1

\* C1: on each of these exit paths of a session that has a uuid, end_scan_session
\* has been invoked exactly once when the process has exited
C1_FinalizedExactlyOnce ==
    (pc = "exited" /\ session_uuid # None /\ ListedExitPath)
    => Count("end_session") = 1

\* C2: over every interleaving of the signal handler with the finally block of
\* fly(), land() and close_connection() are each invoked at most once
C2_LandAndCloseAtMostOnce == Count("land") <= 1 /\ Count("close") <= 1

-----------------------------------------------------------------------------
(* Properties: marker lock and phases (Spec) *)

InFrame(c, frame) == \E i \in 1..Len(frame) : frame[i] = c
LowConfidence(c) == c.smin * 100 < aruco_confidence_threshold * c.smax
FollowingBranches == {"search", "no_valid", "lock_wait", "track"}

\* C3: whenever locked_marker_id is assigned a new value, that value is not in
\* scanned_markers at that moment
C3_ScannedNeverLocked ==
    [][locked_marker_id' # locked_marker_id
       => /\ ev'.lock_assigned /\ locked_marker_id' = ev'.selected.id
          /\ locked_marker_id' \notin scanned_markers
          /\ locked_marker_id' \notin scanned_markers']_vars

\* a lock is taken on a frame that also shows a marker already scanned
C3_Witness ==
    /\ ev.lock_assigned /\ locked_marker_id = ev.selected.id
    /\ \E i \in 1..Len(ev.frame) : ev.frame[i].id \in scanned_markers

\* C5: a candidate whose confidence is below aruco_confidence_threshold is never
\* assigned to locked_marker_id and never becomes current_aruco_id
C5_LowConfidenceNeverSelected ==
    [][(\/ ev'.branch = "track"
        \/ locked_marker_id' # locked_marker_id
        \/ current_aruco_id' # current_aruco_id)
       => /\ ev'.branch = "track"
          /\ InFrame(ev'.selected, ev'.frame)
          /\ locked_marker_id' = ev'.selected.id
          /\ current_aruco_id' = ev'.selected.id
          /\ ~LowConfidence(ev'.selected)]_vars

\* a lock is taken on a frame in which a nearer candidate is below the threshold
C5_Witness ==
    /\ ev.lock_assigned /\ locked_marker_id = ev.selected.id
    /\ \E i \in 1..Len(ev.frame) :
          LowConfidence(ev.frame[i]) /\ ev.frame[i].dist < ev.selected.dist

\* C6: locked_marker_id changes from one id to a different id only after the
\* locked marker has been absent from the valid candidates for at least
\* max_lost_frames consecutive frames counted since that lock was taken
C6_LockKeptUntilLost ==
    [][(locked_marker_id # NoMarker /\ locked_marker_id' # locked_marker_id)
       => ev'.absent_before >= max_lost_frames]_vars

\* C8: while retreating every processed frame takes the retreat branch, and the
\* retreat ends only when retreat_time has elapsed since it was entered
C8_RetreatLastsRetreatTime ==
    [][retreat_mode
       => /\ ev'.branch \in {"retreat", "retreat_end"}
          /\ (retreat_mode' <=> ev'.branch = "retreat")
          /\ (~retreat_mode' => ev'.retreat_wall >= retreat_time)]_vars

\* a frame showing a valid marker is processed during the retreat
C8_Witness ==
    /\ ev.branch = "retreat" /\ retreat_mode /\ ev.retreat_wall < retreat_time
    /\ HasValid(ev.frame)

\* C9: in Following, a frame that ends a run of more than 10 consecutive frames
\* without a valid marker starts the retreat with a backward command
C9_RetreatAfterTenFramesWithoutValid ==
    (ev.branch \in FollowingBranches /\ ev.no_valid_run > retreat_after)
    => (retreat_mode /\ cmds # <<>> /\ cmds[Len(cmds)] = RetreatCmd)

-----------------------------------------------------------------------------
(* Properties: code processing (SpecScan) *)

Lines(text) == Split(text, ",")
LacksId(text) ==
    \A i \in 1..Len(Lines(text)) : ~Contains(Lower(Lines(text)[i]), ID_KEY)
\* every line holding the name keyword has a colon
NameLinesSplit(text) ==
    \A i \in 1..Len(Lines(text)) :
        Contains(Lower(Lines(text)[i]), NAME_KEY)
        => \E j \in 1..Len(Lines(text)[i]) : Lines(text)[i][j] = ":"

\* C4: a process_qr_data call with a text that is already in scanned_qr_codes
\* makes no add_item call, and scanned_qr_codes never loses a text
C4_ScannedTextNotPersistedAgain ==
    [][/\ scanned_qr_codes \subseteq scanned_qr_codes'
       /\ (ev'.branch = "scan" /\ ev'.qr \in scanned_qr_codes)
          => (ev'.add_item_calls = 0 /\ items' = items)]_vars

\* a text scanned before is decoded again at another marker
C4_Witness ==
    /\ ev.branch = "scan" /\ ev.outcome = "duplicate" /\ ev.qr \in scanned_qr_codes
    /\ Cardinality(scanned_markers) >= 2

-----------------------------------------------------------------------------
(* Properties: velocity commands (SpecCtl) *)

WithinLimits(c) ==
    /\ Abs(c.vx) <= centering_speed
    /\ Abs(c.yaw_rate) <= yaw_speed
    /\ Abs(c.vz) <= vertical_speed

\* C7: every velocity command sent satisfies |vx| <= centering_speed,
\* |yaw_rate| <= yaw_speed and |vz| <= vertical_speed
C7_CommandsWithinLimits == \A i \in 1..Len(cmds) : WithinLimits(cmds[i])

\* the control law commands a marker beyond a quarter of the frame width at the
\* full lateral speed
C7_Witness ==
    /\ ev.branch = "track" /\ cmds # <<>>
    /\ Abs(ev.selected.x - FRAME_WIDTH \div 2) > FRAME_WIDTH \div 4
    /\ Abs(ev.selected.dist - target_distance) > distance_threshold
    /\ Abs(cmds[1].vx) = centering_speed

-----------------------------------------------------------------------------
(* Properties: the stored item (SpecScan) *)

ABC123 == <<"a", "b", "c", "1", "2", "3">>
CarriesAbc123(text) == text \in {T_ABC, T_ABC_SP}
Shelf1Position2(m) == m \in DOMAIN ARUCO_LOCATIONS /\ ARUCO_LOCATIONS[m] = <<"1", "2">>
Abc123Item ==
    [qr_code |-> ABC123, name |-> <<"K">>,
     shelf |-> <<"Stellazh", " ", "1">>, position |-> <<"Polka", " ", "2">>]

\* C11: a text with identifier abc123 and a name, decoded at a marker that maps to
\* shelf "1" and position "2" when no stored item has this code, stores the item
\* (abc123, name, "Stellazh 1", "Polka 2") and puts the raw text, not the
\* identifier, into scanned_qr_codes
C11_ItemStoredWithLocation ==
    [][(/\ ev'.branch = "scan" /\ CarriesAbc123(ev'.qr)
        /\ Shelf1Position2(current_aruco_id) /\ locked_marker_id = current_aruco_id
        /\ ev'.qr \notin scanned_qr_codes
        /\ \A it \in items : it.qr_code # ABC123)
       => /\ ev'.add_item_calls = 1
          /\ items' = items \cup {Abc123Item}
          /\ scanned_qr_codes' = scanned_qr_codes \cup {ev'.qr}
          /\ ABC123 \notin scanned_qr_codes']_vars

\* the item abc123 has just been stored at marker 0 from the text with blanks
C11_Witness ==
    /\ ev.branch = "scan" /\ ev.qr = T_ABC_SP /\ ev.outcome = "added"
    /\ current_aruco_id = 0 /\ Abc123Item \in items /\ ev.qr \in scanned_qr_codes
-----------------------------------------------------------------------------
(* Properties: approach of a marker (SpecTrack) *)

DistanceError(frame) == Abs(frame[1].dist - target_distance)

\* what separates the marker of the frame from the condition of ScanningCode:
\* distance error above distance_threshold plus the pixels by which the centroid
\* is outside the precise centring zone
Excess(n, limit) == IF n > limit THEN n - limit ELSE 0
Remaining(frame) ==
    Excess(DistanceError(frame), distance_threshold)
    + Excess(Abs(frame[1].x - FRAME_WIDTH \div 2), precise_center_threshold - 1)
    + Excess(Abs(frame[1].y - FRAME_HEIGHT \div 2), precise_center_threshold - 1)

\* C12: with the marker (confidence 0.9, first seen at distance 200 cm) visible in
\* every frame and the drone obeying the commands, every frame short of the target
\* sends a command, no command makes the distance error grow, each frame is
\* nearer to the condition of ScanningCode than the one before (so that it is
\* reached after finitely many frames), and ScanningCode is entered exactly when
\* the distance is within distance_threshold and the marker is centred
C12_ApproachReachesScanning ==
    [][ev'.frame # <<>>
       => /\ target_reached' <=> Remaining(ev'.frame) = 0
          /\ ~target_reached' => cmds' # <<>> /\ cmds' # <<HoldCmd>>
          /\ ev.frame # <<>>
             => /\ Remaining(ev'.frame) < Remaining(ev.frame)
                /\ DistanceError(ev'.frame) <= DistanceError(ev.frame)
                /\ (/\ DistanceError(ev.frame) > distance_threshold
                    /\ Abs(ev.frame[1].x - FRAME_WIDTH \div 2) < center_threshold)
                   => DistanceError(ev'.frame) < DistanceError(ev.frame)]_vars

\* at the target distance the marker is still off centre and a centring command
\* is sent
C12_Witness ==
    /\ ~target_reached /\ ev.branch = "track" /\ ev.frame # <<>>
    /\ DistanceError(ev.frame) <= distance_threshold
    /\ cmds = <<centering_command(ev.frame[1].x, ev.frame[1].y)>> /\ cmds # <<HoldCmd>>
\* C19: the session outcome is never persisted while the drone is still flying:
\* end_scan_session is not called while is_flying holds and land() has not been
\* invoked yet
C19_LandBeforeSessionEnds ==
    ~(is_flying /\ Count("land") = 0 /\ Count("end_session") > 0)

\* C20: the iteration in which the retreat timer expires leaves no lock, both
\* lost-frame counters at 0, the yaw search active and the phase Following
C20_RetreatEndClearsLock ==
    ev.branch = "retreat_end" =>
        /\ locked_marker_id = NoMarker
        /\ marker_lost_frames = 0
        /\ frames_without_marker = 0
        /\ yaw_search.active
        /\ ~retreat_mode /\ ~target_reached

\* C13: safe_landing invoked while flying orders the return, waits for
\* point_reached for at most 10 s, calls land() whether or not the point was
\* reached and also when the return command raised, then closes the connection,
\* finalizes the session and exits; the wait always ends: every evaluation of its
\* condition either leaves the loop or advances the clock, which stops at 10 s
MainSteps == <<pc, stack, calls, wait_elapsed>>
C13_LandingInOrder ==
    [][/\ pc' = "exited" =>
            calls' \in {<<"takeoff", "break", "end_session", g, "land", "close", "end_session">> :
                          g \in {"go_home", "go_home_failed"}}
       /\ (stack # <<>> /\ Top = "wait" /\ MainSteps' # MainSteps) =>
            /\ wait_elapsed <= landing_timeout
            /\ \/ stack' = SetTop("land") /\ wait_elapsed' = wait_elapsed
               \/ /\ stack' = stack /\ wait_elapsed < landing_timeout
                  /\ wait_elapsed' > wait_elapsed /\ wait_elapsed' <= landing_timeout
       /\ (stack # <<>> /\ Top = "land" /\ MainSteps' # MainSteps) =>
            calls' = Append(calls, "land")]_vars

\* the wait ran into its timeout, and the drone was landed and the process exited
C13_Witness ==
    /\ pc = "exited" /\ wait_elapsed = landing_timeout
    /\ Count("go_home") = 1 /\ Count("land") = 1 /\ ~is_flying

\* C14: when the flight ends normally (no signal, no crash) every message the
\* control thread enqueued, the summary and the session-finished message included,
\* has been taken from the queue by the time the dispatcher stops
C14_NothingLeftInQueue ==
    worker_pc = "stopped" => telegram_queue = <<>>

\* C17: an enqueue of the control thread never has to wait, whatever the
\* dispatcher is doing and however many messages are pending; a failure inside the
\* dispatcher loop is swallowed: the dispatcher goes on with its loop, it stops
\* only after should_stop was set, and its steps change nothing of the control thread
C17_EnqueueNeverBlocks ==
    [][/\ pc = "start" /\ stack = <<>> => ENABLED Takeoff
       /\ pc = "finally" /\ stack = <<>> => ENABLED SaveResults({"ok"})
       /\ stack # <<>> /\ Top = "begin" => ENABLED LandingBegin({"ok"})
       /\ stack # <<>> /\ Top = "finalize" => ENABLED LandingFinalize({"ok"})
       /\ worker_pc' = "stopped" => should_stop
       /\ worker_pc = "forward" /\ worker_pc' # worker_pc => worker_pc' = "check"
       /\ <<worker_pc, message, forwarded>>' # <<worker_pc, message, forwarded>> =>
            UNCHANGED <<shutdownVars, loopVars>>]_vars

\* three messages are pending, enqueued while the dispatcher was busy; print has
\* raised for the two messages taken before, and the dispatcher is back in get
C17_Witness ==
    /\ telegram_queue = <<"summary", "interrupted", "finished">>
    /\ worker_pc = "get" /\ forwarded = <<>> /\ ~should_stop

\* C15: a failure raised by find_item, add_item, add_scan_history,
\* end_scan_session or by the enqueue of a notification never leaves
\* process_qr_data, save_scan_results or safe_landing: it does not end the frame
\* loop, and the drone is landed before the process exits
C15_FailuresAreContained ==
    /\ ~(ev.branch = "raise" /\ ev.outcome # "none")
    /\ pc # "crashed"
    /\ pc = "exited" => ~is_flying

\* C16: the phase after a frame does not depend on whether the persistence calls
\* succeed or raise: the frame whose code reaches find_item / add_item ends in
\* Retreating when they succeed, so it does when one of them raises
C16_PersistenceFailureKeepsPhases ==
    ev.outcome \in {"find_error", "add_error"} => retreat_mode /\ ~target_reached

\* C18: when the detector, the pose solver or a call on the flight connection
\* raises during an iteration, the loop goes on with the next frame
C18_CallFailureKeepsLoop ==
    ~(ev.branch = "raise" /\ ev.fault \in {"detector", "connection"})

\* C21: a failed code processing moves ScanningCode to Retreating only when it
\* is the fifth failure in a row at the current marker; failures before a
\* successful scan or at an earlier marker do not count
FailedOutcomes == {"invalid_location", "invalid_format", "error", "find_error", "add_error"}
C21_AbandonAfterFiveInARow ==
    (ev.branch = "scan" /\ ev.outcome \in FailedOutcomes /\ retreat_mode) =>
        ev.fail_run >= retry_limit

\* C30: in the control law with |dx| <= frame_width/4 the lateral command has
\* magnitude max(centering_speed/2, centering_speed*|dx|/(frame_width/4)), and the
\* yaw command is the scaled yaw halved exactly when the lateral magnitude is the
\* centering_speed/2 floor
C30_YawHalvedAtFloor ==
    LET dx == ev.selected.x - FRAME_WIDTH \div 2
        quarter == FRAME_WIDTH \div 4
        lateral == Max(centering_speed \div 2, Quot(centering_speed * Abs(dx), quarter))
        scaled == Quot(yaw_speed * Abs(dx), quarter)
    IN  (/\ ev.branch = "track" /\ cmds # <<>>
         /\ Abs(ev.selected.dist - target_distance) > distance_threshold
         /\ Abs(dx) <= quarter) =>
            /\ Abs(cmds[1].vx) = lateral
            /\ Abs(cmds[1].yaw_rate) =
                   IF lateral = centering_speed \div 2 THEN Quot(scaled, 2) ELSE scaled

\* C22: a decoded text with both required fields whose identifier is not the
\* code of any stored item, whatever else is stored, makes process_qr_data call
\* add_item once and record a successful scan; the text joins the scanned codes,
\* the current marker the scanned markers, and the phase becomes Retreating
HasBothFields(text) == text \in {T_VALID, T_GAP, T_ABC, T_ABC_SP, T_SUB}
C22_NewItemPersisted ==
    [][(/\ ev'.branch = "scan" /\ HasBothFields(ev'.qr)
        /\ target_reached /\ ev'.qr \notin scanned_qr_codes
        /\ current_aruco_id \in DOMAIN ARUCO_LOCATIONS
        /\ \A it \in items : it.qr_code # clean_string(parse_qr(ev'.qr).qr_code))
       => /\ ev'.add_item_calls = 1
          /\ ev'.recorded = <<"success">>
          /\ ev'.qr \in scanned_qr_codes'
          /\ current_aruco_id \in scanned_markers'
          /\ retreat_mode' /\ ~target_reached']_vars

\* C23: in ScanningCode a decoded text that is already in scanned_qr_codes counts
\* as one successful scan, causes no persistence call, and moves the phase to
\* Retreating with the backward command issued in that same frame
C23_RepeatedTextRetreats ==
    [][(ev'.branch = "scan" /\ target_reached /\ ev'.qr \in scanned_qr_codes)
       => /\ successful_scans' = successful_scans + 1
          /\ ev'.add_item_calls = 0 /\ ev'.recorded = <<>>
          /\ items' = items /\ scanned_qr_codes' = scanned_qr_codes
          /\ retreat_mode' /\ ~target_reached'
          /\ cmds' = <<RetreatCmd>>]_vars

\* a text scanned before has been decoded again at another marker
C23_Witness ==
    /\ ev.branch = "scan" /\ ev.outcome = "duplicate" /\ ev.qr \in scanned_qr_codes
    /\ successful_scans >= 2 /\ Cardinality(scanned_markers) >= 2
    /\ retreat_mode /\ cmds = <<RetreatCmd>>

\* C24: in ScanningCode with no code found the vertical sweep goes on without
\* ending the session: up at vertical_speed until max_search_height, then down at
\* half speed until the initial height, then up again; the frame loop is never
\* left because of the sweep
C24_SweepNeverEndsSession ==
    (target_reached /\ current_search_phase = "down") =>
        /\ pc = "loop"
        /\ cmds # <<>> => cmds = <<Cmd(0, 0, -(vertical_speed \div 2), 0)>>

\* C25: in Following, every frame in which a marker is locked and is not among
\* the valid candidates (frames without valid candidate or without detection
\* included) increments marker_lost_frames by 1; when it reaches max_lost_frames
\* the lock is cleared, otherwise the frame ends without a velocity command
C25_LostFramesCounted ==
    [][(/\ pc = "loop" /\ ~target_reached /\ ~retreat_mode
        /\ locked_marker_id # NoMarker
        /\ ev'.branch \in FollowingBranches /\ ~SeesLocked(ev'.frame))
       => /\ marker_lost_frames' = marker_lost_frames + 1
          /\ IF marker_lost_frames' >= max_lost_frames
             THEN locked_marker_id' # locked_marker_id
             ELSE locked_marker_id' = locked_marker_id /\ cmds' = <<>>]_vars

\* C26: a new lock never goes to a candidate whose pose solve failed or raised;
\* it goes to the candidate with the smallest solved distance among the valid
\* candidates of the frame
C26_LockOnlyOnSolvedPose ==
    ev.lock_assigned =>
        /\ ev.selected.pose = "ok"
        /\ \A i \in 1..Len(ev.frame) :
              (is_valid(ev.frame[i]) /\ ev.frame[i].pose = "ok") =>
                  ev.selected.dist <= ev.frame[i].dist

\* C27: in Following, from the start of the session as well as after a retreat,
\* once more than 5 frames in a row have passed without a valid marker the yaw
\* search is active
C27_YawSearchAfterFiveFrames ==
    (pc = "loop" /\ ~target_reached /\ ~retreat_mode /\ ev.no_valid_run > yaw_search_after)
        => yaw_search.active

\* C28: after a frame in which a valid marker was selected the yaw search is not
\* active, and it is never active in ScanningCode
C28_YawSearchOffWhenMarkerValid ==
    /\ ev.branch = "track" => ~yaw_search.active
    /\ target_reached => ~yaw_search.active

\* C29: while the yaw search is active the tracked angle stays within
\* [-45, 45] degrees
C29_YawAngleWithinBounds ==
    yaw_search.active =>
        /\ yaw_search.current_angle <= yaw_max_angle
        /\ yaw_search.current_angle >= -yaw_max_angle

\* C31: while Following, for every measured distance, distances far above
\* target_distance included, every command sent has |vy| <= max_speed
C31_ForwardWithinMaxSpeed ==
    ev.branch = "track" => \A i \in 1..Len(cmds) : Abs(cmds[i].vy) <= max_speed

\* C32: while Following, a command with a forward/back component is sent only
\* when the marker is horizontally centred (|dx| < center_threshold); off centre
\* every command has vy = 0; a forward/back component has the sign of
\* distance - target_distance
C32_ForwardOnlyWhenCentered ==
    ev.branch = "track" =>
        \A i \in 1..Len(cmds) :
            cmds[i].vy # 0 =>
                /\ Abs(ev.selected.x - FRAME_WIDTH \div 2) < center_threshold
                /\ Sign(cmds[i].vy) = Sign(ev.selected.dist - target_distance)

\* the marker is nearer than the target and 60 px off the middle, inside the
\* centring zone: the command backs away
C32_Witness ==
    /\ ev.branch = "track" /\ cmds # <<>>
    /\ ev.selected.dist < target_distance - distance_threshold
    /\ ev.selected.x - FRAME_WIDTH \div 2 = 60
    /\ cmds[1].vy < 0

\* C33: when the marker is at the target distance and centred, the hold command
\* comes before the stabilization delay: the command in effect while the
\* iteration that enters ScanningCode waits, which is the last command of the
\* iteration before it, is the zero-velocity command
C33_HoldBeforeStabilization ==
    [][(ev'.branch = "track" /\ target_reached' /\ ~target_reached /\ cmds # <<>>)
       => cmds[Len(cmds)] = HoldCmd]_vars

\* C34: while Following, two consecutive tracking commands (control law or
\* centring at distance) are at least control_delay apart, the first command
\* after a retreat included
C34_TrackingRateLimited == ev.track_gap >= control_delay

\* a tracking command has been sent after the retreat that a lost marker caused,
\* frames arriving 0.4 s or 1 s apart
C34_Witness ==
    /\ ev.branch = "track" /\ cmds # <<>> /\ ~target_reached
    /\ yaw_search.active /\ ev.since_track = 0

\* C35: exactly one phase is active in every reachable state: the loop starts
\* in Following (neither flag set), and target_reached (ScanningCode) and
\* retreat_mode (Retreating) are never both set
C35_OnePhaseAtATime ==
    /\ ~(target_reached /\ retreat_mode)
    /\ ev.branch = "none" => ~target_reached /\ ~retreat_mode

\* a successful scan has moved ScanningCode to Retreating
C35_Witness ==
    /\ ev.branch = "scan" /\ ev.outcome = "added"
    /\ retreat_mode /\ ~target_reached

\* C36: once takeoff has been commanded, a termination signal arriving at any
\* later point (between takeoff() returning and is_flying being set, or during
\* the initial climb, included) has land() invoked before the process exits
C36_SignalAfterTakeoffLands ==
    (pc = "exited" /\ signals >= 1 /\ Count("takeoff") = 1) => Count("land") >= 1

\* C37: successful_scans grows by exactly 1 in each code-processing attempt that
\* succeeds (new, already stored or already scanned code) and not at all in one
\* that fails, so that at session end it is the number of successful attempts
C37_OneCountPerSuccess ==
    [][ev'.branch = "scan" =>
          successful_scans' =
              successful_scans
              + (IF ev'.outcome \in {"added", "existing", "duplicate"} THEN 1 ELSE 0)]_vars

\* C38: every session created by the scan command has left status 'active' once
\* its flight process has terminated, a process whose initialization of the
\* drone or of the camera failed included: end_scan_session has been called
C38_SessionLeavesActive ==
    (pc = "terminated" /\ session_uuid # None) => Count("end_session") >= 1

\* C39: after any sequence of add_item calls no two stored items have the same
\* whitespace-normalized code; a call with a code that is already stored sets
\* that item's name, shelf and position, leaves every other item alone and does
\* not change the number of items
C39_OneItemPerCode ==
    [][ev'.branch = "add_item" =>
          LET code == clean_string(ev'.qr)
              row == [qr_code |-> code, name |-> clean_string(ev'.recorded[1]),
                      shelf |-> clean_string(ev'.recorded[2]),
                      position |-> clean_string(ev'.recorded[3])]
          IN  /\ \A a, b \in items' :
                    clean_string(a.qr_code) = clean_string(b.qr_code) => a = b
              /\ row \in items'
              /\ \A it \in items : it.qr_code # code => it \in items'
              /\ (\E it \in items : it.qr_code = code)
                     => Cardinality(items') = Cardinality(items)]_vars

\* with two items stored, the code "a  1" has been added again under another
\* name: the item "a 1" carries the new name and there are still two items
C39_Witness ==
    /\ ev.branch = "add_item" /\ ev.outcome = "updated"
    /\ ev.qr = <<"a", " ", " ", "1">> /\ ev.recorded[1] = <<"K">>
    /\ Cardinality(items) = 2
    /\ \E it \in items : it.qr_code = <<"a", " ", "1">> /\ it.name = <<"K">>

====
